---- MODULE Spec2Model ----
(***************************************************************************)
(* B-spline binning and mutual-information estimation                      *)
(* (src/src/bspline_mutual_information/bspline_mutual_information.py).     *)
(*                                                                         *)
(* Numbers.  A float is modelled by the exact rational it denotes, a pair  *)
(* <<numerator, denominator>> in lowest terms with a positive denominator; *)
(* a denominator of 0 is a non-finite float (<<0, 0>> is NaN, <<1, 0>> and *)
(* <<-1, 0>> the infinities).  Sample values are drawn from the integers   *)
(* 0..MaxVal, on which the arithmetic of the domain transform is exact in  *)
(* binary64 as well.  A value a * log2(b) + ... is modelled by its unique  *)
(* expansion over the logarithms of the primes (LogNum below), so that     *)
(* equality of two entropies in the model is equality of the real numbers. *)
(* Rounding of the last binary digit is not modelled: the statements below *)
(* are the exact-arithmetic readings of the tolerances in the              *)
(* specification.                                                          *)
(***************************************************************************)
EXTENDS Integers, Sequences, FiniteSets, TLC

\* ---------------------------------------------------------------- bounds
MaxLen == 3
MaxVal == 2
MaxBins == 3
MaxOrder == 2

\* ------------------------------------------------- floats as rationals
NaN == <<0, 0>>

Abs(a) == IF a < 0 THEN -a ELSE a

Sign(a) == IF a < 0 THEN -1 ELSE IF a > 0 THEN 1 ELSE 0

RECURSIVE GCD(_, _)
GCD(a, b) == IF b = 0 THEN a ELSE GCD(b, a % b)

\* the float n/d (d # 0), in lowest terms
Rat(n, d) ==
    LET g == GCD(Abs(n), Abs(d))
    IN  <<Sign(d) * (n \div g), Abs(d) \div g>>

FromInt(n) == <<n, 1>>

isnan(a) == a = NaN

IsFinite(a) == a[2] # 0

FAdd(a, b) ==
    IF IsFinite(a) /\ IsFinite(b)
    THEN Rat(a[1] * b[2] + b[1] * a[2], a[2] * b[2])
    ELSE IF IsFinite(b) THEN a
    ELSE IF IsFinite(a) \/ a = b THEN b
    ELSE NaN

FNeg(a) == <<-a[1], a[2]>>

FSub(a, b) == FAdd(a, FNeg(b))

FMul(a, b) ==
    IF IsFinite(a) /\ IsFinite(b)
    THEN Rat(a[1] * b[1], a[2] * b[2])
    ELSE <<Sign(a[1]) * Sign(b[1]), 0>>

\* numpy division: x / 0 is nan for x = 0 and an infinity otherwise
FDiv(a, b) ==
    IF IsFinite(a) /\ IsFinite(b)
    THEN IF b[1] = 0 THEN <<Sign(a[1]), 0>>
         ELSE Rat(a[1] * b[2], a[2] * b[1])
    ELSE IF IsFinite(b) THEN <<a[1] * (IF b[1] < 0 THEN -1 ELSE 1), 0>>
    ELSE IF IsFinite(a) THEN <<0, 1>>
    ELSE NaN

\* a < b on floats; every comparison with NaN is false
FLess(a, b) ==
    IF IsFinite(a) /\ IsFinite(b) THEN a[1] * b[2] < b[1] * a[2]
    ELSE IF isnan(a) \/ isnan(b) THEN FALSE
    ELSE IF IsFinite(a) THEN b[1] > 0
    ELSE IF IsFinite(b) THEN a[1] < 0
    ELSE a[1] < b[1]

RECURSIVE FSumTo(_, _)
FSumTo(s, n) == IF n = 0 THEN FromInt(0) ELSE FAdd(FSumTo(s, n - 1), s[n])

\* np.sum of a vector
FSum(s) == FSumTo(s, Len(s))

\* the builtin min() / max() of a non-empty sequence: the first element
\* that no other element is below (above)
RECURSIVE MinTo(_, _)
MinTo(s, n) ==
    IF n = 1 THEN s[1]
    ELSE LET m == MinTo(s, n - 1) IN IF FLess(s[n], m) THEN s[n] ELSE m

RECURSIVE MaxTo(_, _)
MaxTo(s, n) ==
    IF n = 1 THEN s[1]
    ELSE LET m == MaxTo(s, n - 1) IN IF FLess(m, s[n]) THEN s[n] ELSE m

min(s) == MinTo(s, Len(s))

max(s) == MaxTo(s, Len(s))

\* ------------------------------------------ results of a call: value or raise
Ok(v) == [exc |-> "none", val |-> v]

Raise(e) == [exc |-> e, val |-> <<>>]

\* -------------------------------------------------------------- the binner
\* knots = range(0, bins + order): knots[j] (0-based) is Knot(t, j)
range(lo, hi) == [i \in 1..(IF hi > lo THEN hi - lo ELSE 0) |-> FromInt(lo + i - 1)]

Knot(t, j) == t[j + 1]

\* _transform_data with a zero range guarded: a constant sample is mapped
\* to bspline_min instead of 0/0
_transform_data_ZeroRangeGuarded(data, bspline_min, bspline_max) ==
    IF Len(data) = 0 THEN Raise("ValueError")
    ELSE Ok([i \in 1..Len(data) |->
             IF max(data) = min(data) THEN bspline_min
             ELSE FAdd(FDiv(FMul(FSub(data[i], min(data)),
                                 FSub(bspline_max, bspline_min)),
                            FSub(max(data), min(data))),
                       bspline_min)])

\* _transform_data: the sample's range mapped onto [bspline_min, bspline_max];
\* min() of an empty sample raises ValueError, a constant sample gives 0/0
_transform_data(data, bspline_min, bspline_max) ==
    IF Len(data) = 0 THEN Raise("ValueError")
    ELSE Ok([i \in 1..Len(data) |->
             FAdd(FDiv(FMul(FSub(data[i], min(data)),
                            FSub(bspline_max, bspline_min)),
                       FSub(max(data), min(data))),
                  bspline_min)])

\* the second loop of find_interval: advance l while xval >= t[l] and l # n
RECURSIVE WalkUp(_, _, _, _)
WalkUp(t, n, xval, l) ==
    IF (~FLess(xval, Knot(t, l))) /\ l # n
    THEN WalkUp(t, n, xval, l + 1)
    ELSE l

\* the interval l with t[l] <= xval < t[l+1] in the base interval
\* [t[k], t[n]], n = len(t) - k - 1; xval = t[n] falls in the last interval
find_interval(t, k, xval) ==
    LET n == Len(t) - k - 1
    IN  WalkUp(t, n, xval, k + 1) - 1

\* the B-spline basis function j of degree d at xval, evaluated in the
\* interval ind (de Boor's recursion, as _deBoor_D computes it)
RECURSIVE Basis(_, _, _, _, _)
Basis(t, j, d, ind, xval) ==
    IF d = 0 THEN FromInt(IF j = ind THEN 1 ELSE 0)
    ELSE FAdd(FMul(FDiv(FSub(xval, Knot(t, j)),
                        FSub(Knot(t, j + d), Knot(t, j))),
                   Basis(t, j, d - 1, ind, xval)),
              FMul(FDiv(FSub(Knot(t, j + d + 1), xval),
                        FSub(Knot(t, j + d + 1), Knot(t, j + 1))),
                   Basis(t, j + 1, d - 1, ind, xval)))

\* BSpline.design_matrix(x, t, k).toarray(): one row per point, one column
\* per basis function; ValueError for a non-finite point, for too few knots
\* and for a point outside [t[k], t[n]]
design_matrix(x, t, k) ==
    LET n == Len(t) - k - 1
    IN  IF \E i \in 1..Len(x) : ~IsFinite(x[i]) THEN Raise("ValueError")
        ELSE IF Len(t) < 2 * k + 2 THEN Raise("ValueError")
        ELSE IF Len(x) = 0 THEN Raise("ValueError")
        ELSE IF FLess(min(x), Knot(t, k)) \/ FLess(Knot(t, n), max(x))
             THEN Raise("ValueError")
        ELSE Ok([i \in 1..Len(x) |->
                 [j \in 1..n |->
                  Basis(t, j - 1, k, find_interval(t, k, x[i]), x[i])]])

bspline_bin(data, bins, order) ==
    LET degree == order - 1
        knots == range(0, bins + order)
        bspline_min == Knot(knots, degree)
        bspline_max == Knot(knots, bins)
        data_t == _transform_data(data, bspline_min, bspline_max)
    IN  IF data_t.exc # "none" THEN data_t
        ELSE design_matrix(data_t.val, knots, degree)

\* ------------------------------------------- sums of a * log2(b) terms
\* A LogNum is the real number SUM over its domain of f[p] * log2(p): a
\* function from a finite set of primes to non-zero rationals.  log2(2) = 1,
\* so f[2] is the rational part.  The logarithms of the primes are linearly
\* independent over the rationals: two LogNums are equal as functions
\* exactly when they are equal as real numbers.
LZero == [p \in {} |-> FromInt(0)]

LCoef(f, p) == IF p \in DOMAIN f THEN f[p] ELSE FromInt(0)

LTrim(h) == [p \in {q \in DOMAIN h : h[q] # FromInt(0)} |-> h[p]]

LAdd(f, g) == LTrim([p \in DOMAIN f \cup DOMAIN g |-> FAdd(LCoef(f, p), LCoef(g, p))])

LScale(f, r) == LTrim([p \in DOMAIN f |-> FMul(f[p], r)])

LNeg(f) == LScale(f, FromInt(-1))

LSub(f, g) == LAdd(f, LNeg(g))

\* the rational r as a LogNum
LConst(r) == LTrim([p \in {2} |-> r])

IsPrime(p) == p > 1 /\ \A q \in 2..(p - 1) : p % q # 0

RECURSIVE Valuation(_, _)
Valuation(n, p) == IF n % p = 0 THEN 1 + Valuation(n \div p, p) ELSE 0

\* log2 of the integer n >= 1
LogInt(n) == [p \in {q \in 2..n : n % q = 0 /\ IsPrime(q)} |-> FromInt(Valuation(n, p))]

\* np.log2 of a positive finite float
log2(a) == LSub(LogInt(a[1]), LogInt(a[2]))

\* np.nansum(p * np.log2(p)): p[j] * log2(p[j]) is nan for p[j] = 0
\* (0 * -inf) and is left out of the sum
RECURSIVE NanSumPLogP(_, _)
NanSumPLogP(p, n) ==
    IF n = 0 THEN LZero
    ELSE LAdd(NanSumPLogP(p, n - 1),
              IF IsFinite(p[n]) /\ p[n][1] > 0
              THEN LScale(log2(p[n]), p[n])
              ELSE LZero)

\* the Shannon entropy -nansum(p * log2(p))
Entropy(p) == LNeg(NanSumPLogP(p, Len(p)))

\* ----------------------------------------------------------- the estimator
\* the return value mi: None or a float
None == [kind |-> "None", val |-> LZero]

Float(v) == [kind |-> "float", val |-> v]

Unset == [kind |-> "unset", val |-> LZero]

\* the check with the order compared one too high
ConfigInvalid_OrderAboveTwo(spline_order_, correct_) ==
    spline_order_ > 2 /\ correct_

\* the check of line 219
ConfigInvalid(spline_order_, correct_) == spline_order_ > 1 /\ correct_

RECURSIVE DefinedUpTo(_, _, _)
DefinedUpTo(x_, y_, n) ==
    IF n = 0 THEN <<>>
    ELSE IF (~isnan(x_[n])) /\ (~isnan(y_[n]))
         THEN Append(DefinedUpTo(x_, y_, n - 1), n)
         ELSE DefinedUpTo(x_, y_, n - 1)

\* np.where(~np.isnan(x) & ~np.isnan(y)): a tuple holding ONE array, the
\* indices at which both samples are defined, in increasing order
where_defined(x_, y_) == << DefinedUpTo(x_, y_, Len(x_)) >>

\* x[xy_defined]: the elements of x at the indices of the tuple's array
Take(x_, xy_defined_) ==
    [i \in 1..Len(xy_defined_[1]) |-> x_[xy_defined_[1][i]]]

\* the gate with the comparison turned round
TooLittleOverlap_Reversed(xy_defined_, x_, min_def_) ==
    FLess(min_def_, FDiv(FromInt(Len(xy_defined_)), FromInt(Len(x_))))

\* the gate of line 243: len(xy_defined) / len(x) < min_def, where
\* len(xy_defined) is the length of the tuple
TooLittleOverlap(xy_defined_, x_, min_def_) ==
    FLess(FDiv(FromInt(Len(xy_defined_)), FromInt(Len(x_))), min_def_)

\* np.sum(m, axis=0) / n for a design matrix m with b columns
Marginal(m, b, n) ==
    [j \in 1..b |-> FDiv(FSum([i \in 1..Len(m) |-> m[i][j]]), FromInt(n))]

\* (np.matmul(np.transpose(mx), my) / n).flatten('F'): entry (a, c) of the
\* b-by-b product at position (c - 1) * b + a
Joint(mx, my, b, n) ==
    [q \in 1..(b * b) |->
     LET a == ((q - 1) % b) + 1
         c == ((q - 1) \div b) + 1
     IN  FDiv(FSum([i \in 1..Len(mx) |-> FMul(mx[i][a], my[i][c])]), FromInt(n))]

\* the combination with the entropy of x taken for that of y
Combine_MarginalTwice(hx, hy, hxy) == LSub(LAdd(hx, hx), hxy)

\* line 293: h_x + h_y - h_x_y
Combine(hx, hy, hxy) == LSub(LAdd(hx, hy), hxy)

\* the correction with bins for bins - 1
Corrected_BinsForBinsLessOne(v, bins_, x_defined_vals_) ==
    LSub(v, LConst(FDiv(FromInt(bins_), FromInt(2 * Len(x_defined_vals_)))))

\* line 297: mi - (bins - 1) / (2 * len(x_defined_vals))
Corrected(v, bins_, x_defined_vals_) ==
    LSub(v, LConst(FDiv(FromInt(bins_ - 1), FromInt(2 * Len(x_defined_vals_)))))

\* the two binner calls of the try block: ValueError of either is caught
BinBoth(xd, yd, bins_, order_) ==
    LET bx == bspline_bin(xd, bins_, order_)
        by == bspline_bin(yd, bins_, order_)
    IN  IF bx.exc # "none" THEN bx
        ELSE IF by.exc # "none" THEN by
        ELSE Ok(<<bx.val, by.val>>)

\* the whole call: Raise(e) or Ok(mi)
mutual_information(x_, y_, bins_, spline_order_, correct_, min_def_) ==
    IF ConfigInvalid(spline_order_, correct_) THEN Raise("ValueError")
    ELSE
    LET xyd == where_defined(x_, y_)
        xd == Take(x_, xyd)
        yd == Take(y_, xyd)
    IN  IF Len(x_) = 0 THEN Raise("ZeroDivisionError")
        ELSE IF TooLittleOverlap(xyd, x_, min_def_) THEN Ok(None)
        ELSE
        LET b == BinBoth(xd, yd, bins_, spline_order_)
        IN  IF b.exc # "none" THEN Ok(None)
            ELSE
            LET px == Marginal(b.val[1], bins_, Len(xd))
                py == Marginal(b.val[2], bins_, Len(yd))
                pxy == Joint(b.val[1], b.val[2], bins_, Len(x_))
                v == Combine(Entropy(px), Entropy(py), Entropy(pxy))
            IN  Ok(Float(IF correct_ THEN Corrected(v, bins_, xd) ELSE v))

\* --------------------------------------------- the binner in binary64
\* The arithmetic of _transform_data as numpy performs it, for hard binning
\* (order = 1, so bspline_min = 0 and "+ bspline_min" adds 0.0) of a sample
\* whose minimum is 0.0 (so "data - min(data)" subtracts 0.0): the two
\* roundings left are those of the product and of the quotient.
\*
\* A finite non-negative double is <<hi, lo, e>>, the number
\* (hi * 2^26 + lo) * 2^e with a 53-bit significand 2^52 <= hi * 2^26 + lo
\* < 2^53, or Zero64.  A natural number below 2^57 is the pair <<hi, lo>>.
SignificandBits == 53

Limb == 2 ^ (SignificandBits \div 2)

Zero64 == <<0, 0, 0>>

NaN64 == <<-1, 0, 0>>

NLess(a, b) == a[1] < b[1] \/ (a[1] = b[1] /\ a[2] < b[2])

\* a - b for a >= b
NSub(a, b) ==
    IF a[2] >= b[2] THEN <<a[1] - b[1], a[2] - b[2]>>
    ELSE <<a[1] - b[1] - 1, a[2] + Limb - b[2]>>

\* a * b for a small natural b
NMul(a, b) == <<a[1] * b + ((a[2] * b) \div Limb), (a[2] * b) % Limb>>

NSucc(a) == IF a[2] + 1 = Limb THEN <<a[1] + 1, 0>> ELSE <<a[1], a[2] + 1>>

\* the number of bits by which the natural a exceeds a 53-bit significand
RECURSIVE ExcessBits(_)
ExcessBits(hi) == IF hi < 2 * Limb THEN 0 ELSE 1 + ExcessBits(hi \div 2)

\* the significand q (53 bits or 2^53) at exponent e, after rounding
Pack(q, e) == IF q[1] = 2 * Limb THEN <<Limb, 0, e + 1>> ELSE <<q[1], q[2], e>>

\* round to nearest, ties to even: the natural a * 2^e, a >= 2^52, as a double
Round64(a, e) ==
    LET r == ExcessBits(a[1])
        q == <<a[1] \div (2 ^ r),
               (a[1] % (2 ^ r)) * (Limb \div (2 ^ r)) + (a[2] \div (2 ^ r))>>
        rem == a[2] % (2 ^ r)
        half == (2 ^ r) \div 2
        up == r > 0 /\ (rem > half \/ (rem = half /\ q[2] % 2 = 1))
    IN  Pack(IF up THEN NSucc(q) ELSE q, e + r)

\* the number of binary digits of the natural n
RECURSIVE BitLength(_)
BitLength(n) == IF n = 0 THEN 0 ELSE 1 + BitLength(n \div 2)

\* float(n) for an integer 0 <= n < 2^26: n shifted up to 53 bits
Int64(n) ==
    IF n = 0 THEN Zero64
    ELSE <<n * (2 ^ (SignificandBits \div 2 + 1 - BitLength(n))), 0,
           BitLength(n) - SignificandBits>>

\* a < b on non-negative doubles; false when either is NaN
Less64(a, b) ==
    IF a = NaN64 \/ b = NaN64 THEN FALSE
    ELSE IF b = Zero64 THEN FALSE
    ELSE IF a = Zero64 THEN TRUE
    ELSE a[3] < b[3] \/ (a[3] = b[3] /\ NLess(<<a[1], a[2]>>, <<b[1], b[2]>>))

\* a - b in binary64 where it is exact: b = 0.0 or b = a
Sub64(a, b) ==
    IF a = NaN64 \/ b = NaN64 THEN NaN64
    ELSE IF b = Zero64 THEN a
    ELSE IF a = b THEN Zero64
    ELSE NaN64

\* a + b in binary64 where it is exact: b = 0.0
Add64(a, b) == IF b = Zero64 THEN a ELSE NaN64

\* a * b in binary64 for a double a >= 0 and a small integer b >= 1
MulInt64(a, b) ==
    IF a = NaN64 THEN NaN64
    ELSE IF a = Zero64 THEN Zero64
    ELSE Round64(NMul(<<a[1], a[2]>>, b), a[3])

\* long division: steps more quotient bits of rem / d appended to quo
\* one step of the long division: the next quotient bit of s.rem / s.d
DivStep(s) ==
    LET r2 == NMul(s.rem, 2)
        bit == ~NLess(r2, s.d)
    IN  [rem |-> IF bit THEN NSub(r2, s.d) ELSE r2,
         d |-> s.d,
         quo |-> IF bit THEN NSucc(NMul(s.quo, 2)) ELSE NMul(s.quo, 2)]

\* steps steps of the long division, the first half of them first; the
\* remainder of a division in progress is below the divisor
RECURSIVE DivSteps(_, _)
DivSteps(s, steps) ==
    IF steps = 0 \/ ~NLess(s.rem, s.d) THEN s
    ELSE IF steps = 1 THEN DivStep(s)
    ELSE DivSteps(DivSteps(s, steps \div 2), steps - (steps \div 2))

\* a / b in binary64 for doubles a, b >= 0: 0/0 is nan; the quotient of the
\* significands is developed to 53 bits and rounded to nearest, ties to even
Div64(a, b) ==
    IF a = NaN64 \/ b = NaN64 THEN NaN64
    ELSE IF b = Zero64 THEN NaN64
    ELSE IF a = Zero64 THEN Zero64
    ELSE
    LET ma == <<a[1], a[2]>>
        mb == <<b[1], b[2]>>
        ge == ~NLess(ma, mb)
        steps == IF ge THEN SignificandBits - 1 ELSE SignificandBits
        r == DivSteps([rem |-> IF ge THEN NSub(ma, mb) ELSE ma, d |-> mb,
                       quo |-> IF ge THEN <<0, 1>> ELSE <<0, 0>>], steps)
        twice == NMul(r.rem, 2)
        up == NLess(mb, twice) \/ (twice = mb /\ r.quo[2] % 2 = 1)
    IN  Pack(IF up THEN NSucc(r.quo) ELSE r.quo, a[3] - b[3] - steps)

RECURSIVE Min64To(_, _)
Min64To(s, n) ==
    IF n = 1 THEN s[1]
    ELSE LET m == Min64To(s, n - 1) IN IF Less64(s[n], m) THEN s[n] ELSE m

RECURSIVE Max64To(_, _)
Max64To(s, n) ==
    IF n = 1 THEN s[1]
    ELSE LET m == Max64To(s, n - 1) IN IF Less64(m, s[n]) THEN s[n] ELSE m

min64(s) == Min64To(s, Len(s))

max64(s) == Max64To(s, Len(s))

\* _transform_data in binary64, bspline_min = 0 and bspline_max = bins
transform_data64(data, bspline_max) ==
    IF Len(data) = 0 THEN Raise("ValueError")
    ELSE Ok([i \in 1..Len(data) |->
             Add64(Div64(MulInt64(Sub64(data[i], min64(data)), bspline_max),
                         Sub64(max64(data), min64(data))),
                   Zero64)])

\* find_interval for degree 0 and knots 0..n: advance l while xval >= l, l # n
RECURSIVE WalkUp64(_, _, _)
WalkUp64(n, xval, l) ==
    IF (~Less64(xval, Int64(l))) /\ l # n
    THEN WalkUp64(n, xval, l + 1)
    ELSE l

find_interval64(n, xval) == WalkUp64(n, xval, 1) - 1

\* BSpline.design_matrix(x, range(0, bins + 1), 0).toarray(): the basis
\* function of degree 0 is the indicator of the interval found
design_matrix64(x_, bins_) ==
    IF \E i \in 1..Len(x_) : x_[i] = NaN64 THEN Raise("ValueError")
    ELSE IF bins_ + 1 < 2 THEN Raise("ValueError")
    ELSE IF Len(x_) = 0 THEN Raise("ValueError")
    ELSE IF Less64(min64(x_), Int64(0)) \/ Less64(Int64(bins_), max64(x_))
         THEN Raise("ValueError")
    ELSE Ok([i \in 1..Len(x_) |->
             [j \in 1..bins_ |->
              FromInt(IF j - 1 = find_interval64(bins_, x_[i]) THEN 1 ELSE 0)]])

\* ------------------------------------------------------- the state machine
\* One call of one of the two entry points, step by step.
VARIABLES
    call,                \* the entry point called
    x, y, bins, spline_order, correct, min_def,      \* its arguments
    pc,                  \* the position in the call
    xy_defined, x_defined_vals, y_defined_vals,
    x_bin_associations, y_bin_associations,
    p_x, p_y, p_x_y, h_x, h_y, h_x_y,
    mi,                  \* the value returned by mutual_information
    data_t, design,      \* bspline_bin: the transformed sample, the matrix
    exc                  \* the exception raised to the caller, or "none"

args == <<call, x, y, bins, spline_order, correct, min_def>>

locals == <<xy_defined, x_defined_vals, y_defined_vals,
            x_bin_associations, y_bin_associations,
            p_x, p_y, p_x_y, h_x, h_y, h_x_y>>

binner == <<data_t, design>>

vars == <<args, pc, locals, mi, binner, exc>>

\* sample values: the integers 0..MaxVal, and NaN for a missing value
Values == {FromInt(v) : v \in 0..MaxVal}

Samples(n, vals) == [1..n -> vals]

\* thresholds: none, one position in MaxLen, every position, MaxLen positions
MinDefs == {FromInt(0), Rat(1, MaxLen), FromInt(1), FromInt(MaxLen)}

InitLocals ==
    /\ pc = "start"
    /\ xy_defined = <<>> /\ x_defined_vals = <<>> /\ y_defined_vals = <<>>
    /\ x_bin_associations = <<>> /\ y_bin_associations = <<>>
    /\ p_x = <<>> /\ p_y = <<>> /\ p_x_y = <<>>
    /\ h_x = LZero /\ h_y = LZero /\ h_x_y = LZero
    /\ mi = Unset /\ data_t = <<>> /\ design = <<>> /\ exc = "none"

Init ==
    /\ call = "mutual_information"
    /\ bins \in 1..MaxBins
    /\ spline_order \in 1..MaxOrder
    /\ \E n \in 0..MaxLen :
         /\ x \in Samples(n, Values \cup {NaN})
         /\ y \in Samples(n, Values \cup {NaN})
    /\ correct \in BOOLEAN
    /\ min_def \in MinDefs
    /\ InitLocals

\* lines 219-223: the configuration check, before anything else
CheckConfig ==
    /\ pc = "start" /\ call = "mutual_information"
    /\ IF ConfigInvalid(spline_order, correct)
       THEN pc' = "raised" /\ exc' = "ValueError"
       ELSE pc' = "filter" /\ exc' = exc
    /\ UNCHANGED <<args, locals, mi, binner>>

\* lines 237-239: the jointly defined positions
Filter ==
    /\ pc = "filter"
    /\ xy_defined' = where_defined(x, y)
    /\ x_defined_vals' = Take(x, xy_defined')
    /\ y_defined_vals' = Take(y, xy_defined')
    /\ pc' = "gate"
    /\ UNCHANGED <<args, x_bin_associations, y_bin_associations,
                   p_x, p_y, p_x_y, h_x, h_y, h_x_y, mi, binner, exc>>

\* lines 243-244 (and 299): the minimum-overlap gate
Gate ==
    /\ pc = "gate"
    /\ IF Len(x) = 0
       THEN pc' = "raised" /\ exc' = "ZeroDivisionError" /\ mi' = mi
       ELSE IF TooLittleOverlap(xy_defined, x, min_def)
            THEN pc' = "done" /\ mi' = None /\ exc' = exc
            ELSE pc' = "bin" /\ mi' = mi /\ exc' = exc
    /\ UNCHANGED <<args, locals, binner>>

\* lines 246-273: the two binner calls; ValueError gives None
Bin ==
    /\ pc = "bin"
    /\ LET b == BinBoth(x_defined_vals, y_defined_vals, bins, spline_order)
       IN  IF b.exc = "ValueError"
           THEN /\ mi' = None /\ pc' = "done"
                /\ UNCHANGED <<x_bin_associations, y_bin_associations>>
           ELSE /\ x_bin_associations' = b.val[1]
                /\ y_bin_associations' = b.val[2]
                /\ mi' = mi /\ pc' = "prob"
    /\ UNCHANGED <<args, xy_defined, x_defined_vals, y_defined_vals,
                   p_x, p_y, p_x_y, h_x, h_y, h_x_y, binner, exc>>

\* lines 278-285: marginal and joint occupancy
Probabilities ==
    /\ pc = "prob"
    /\ p_x' = Marginal(x_bin_associations, bins, Len(x_defined_vals))
    /\ p_y' = Marginal(y_bin_associations, bins, Len(y_defined_vals))
    /\ p_x_y' = Joint(x_bin_associations, y_bin_associations, bins, Len(x))
    /\ pc' = "entropy"
    /\ UNCHANGED <<args, xy_defined, x_defined_vals, y_defined_vals,
                   x_bin_associations, y_bin_associations,
                   h_x, h_y, h_x_y, mi, binner, exc>>

\* lines 287-293: the entropies and their combination
Entropies ==
    /\ pc = "entropy"
    /\ h_x' = Entropy(p_x)
    /\ h_y' = Entropy(p_y)
    /\ h_x_y' = Entropy(p_x_y)
    /\ mi' = Float(Combine(h_x', h_y', h_x_y'))
    /\ pc' = "correct"
    /\ UNCHANGED <<args, xy_defined, x_defined_vals, y_defined_vals,
                   x_bin_associations, y_bin_associations,
                   p_x, p_y, p_x_y, binner, exc>>

\* lines 296-299: the finite-size correction, and the return
Correct ==
    /\ pc = "correct"
    /\ mi' = IF correct
             THEN Float(Corrected(mi.val, bins, x_defined_vals))
             ELSE mi
    /\ pc' = "done"
    /\ UNCHANGED <<args, locals, binner, exc>>

Next ==
    \/ CheckConfig
    \/ Filter
    \/ Gate
    \/ Bin
    \/ Probabilities
    \/ Entropies
    \/ Correct

Spec == Init /\ [][Next]_vars

\* ------------------------------------- the binner called on its own, in binary64
MaxTenths == 4

\* the doubles 0.0, 0.1, 0.2, ...: k / 10 correctly rounded
Decimals == {Div64(Int64(k), Int64(10)) : k \in 0..MaxTenths}

\* bspline_bin(data = x, bins, order = 1) for a sample of decimals whose
\* minimum is 0.0
InitBinner ==
    /\ call = "bspline_bin"
    /\ bins \in 1..MaxBins
    /\ spline_order = 1
    /\ \E n \in 0..MaxLen :
         /\ x \in Samples(n, Decimals)
         /\ n > 0 => \E i \in 1..n : x[i] = Zero64
    /\ y = <<>> /\ correct = FALSE /\ min_def = FromInt(0)
    /\ InitLocals

\* lines 87-98: degree 0, knots 0..bins, the sample mapped onto [0, bins]
Transform ==
    /\ pc = "start" /\ call = "bspline_bin"
    /\ LET r == transform_data64(x, bins)
       IN  IF r.exc = "none"
           THEN data_t' = r.val /\ exc' = exc /\ pc' = "design"
           ELSE data_t' = data_t /\ exc' = r.exc /\ pc' = "raised"
    /\ UNCHANGED <<args, locals, mi, design>>

\* lines 104-107: the design matrix, returned
DesignMatrix ==
    /\ pc = "design"
    /\ LET r == design_matrix64(data_t, bins)
       IN  IF r.exc = "none"
           THEN design' = r.val /\ exc' = exc /\ pc' = "done"
           ELSE design' = design /\ exc' = r.exc /\ pc' = "raised"
    /\ UNCHANGED <<args, locals, mi, data_t>>

NextBinner ==
    \/ Transform
    \/ DesignMatrix

SpecBinner == InitBinner /\ [][NextBinner]_vars

\* ------------------------------------------------------------- the claims
Terminal == pc \in {"done", "raised"}

\* the positions at which both samples are defined
JointlyDefined == {i \in 1..Len(x) : x[i] # NaN /\ y[i] # NaN}

\* s takes a single value on the jointly defined positions
ConstantOn(s) == \A i, j \in JointlyDefined : s[i] = s[j]

ValidConfig == ~(spline_order > 1 /\ correct = TRUE)

\* C1: with spline_order > 1 and correct = true the call raises ValueError,
\* and it does so before any filtering, gating or binning: no local is
\* ever assigned and nothing is returned.
C1_ConfigErrorBeforeComputation ==
    (spline_order > 1 /\ correct = TRUE) =>
        /\ pc \in {"start", "raised"}
        /\ pc = "raised" => exc = "ValueError"
        /\ mi = Unset
        /\ xy_defined = <<>> /\ x_defined_vals = <<>> /\ y_defined_vals = <<>>
        /\ x_bin_associations = <<>> /\ y_bin_associations = <<>>
        /\ p_x = <<>> /\ p_y = <<>> /\ p_x_y = <<>>

C1_Witness ==
    pc = "raised" /\ exc = "ValueError" /\ spline_order > 1 /\ correct = TRUE
    /\ Len(x) > 1 /\ ~ConstantOn(x)

\* C2: for non-empty samples whose jointly defined parts are both
\* non-constant and min_def in [0, 1], None is returned if and only if
\* (number of jointly defined positions) / len(x) < min_def.  (Stated for
\* a valid configuration and bins >= spline_order, where the binner has a
\* non-empty domain: its cases are cases of the claim.)
C2_NoneIffOverlapFractionBelowMinDef ==
    (/\ Terminal /\ Len(x) > 0 /\ ValidConfig /\ bins >= spline_order
     /\ ~ConstantOn(x) /\ ~ConstantOn(y)
     /\ ~FLess(min_def, FromInt(0)) /\ ~FLess(FromInt(1), min_def))
    => /\ pc = "done"
       /\ mi = None <=>
            FLess(Rat(Cardinality(JointlyDefined), Len(x)), min_def)

\* C3: for non-empty samples and a valid configuration, a filtered x or a
\* filtered y that is constant-valued gives None, and no error is raised.
C3_ConstantSampleGivesNone ==
    (/\ Terminal /\ Len(x) > 0 /\ ValidConfig
     /\ (ConstantOn(x) \/ ConstantOn(y)))
    => (pc = "done" /\ mi = None /\ exc = "none")

\* the constant sample reaches the binner (min_def = 0 opens the gate) and
\* the other sample is not constant
C3_Witness ==
    /\ pc = "done" /\ mi = None /\ min_def = FromInt(0)
    /\ Cardinality(JointlyDefined) > 1
    /\ ConstantOn(x) /\ ~ConstantOn(y)

\* C6: the joint occupancy vector p_x_y sums to 1 whenever it is computed.
C6_JointOccupancySumsToOne ==
    (pc \in {"entropy", "correct", "done"} /\ Len(p_x_y) > 0)
    => FSum(p_x_y) = FromInt(1)

\* C7: the outcome of mutual_information(x, y, ...) is the outcome of
\* mutual_information(y, x, ...): the same exception, the same None, the
\* same float.
C7_SymmetricInSamples ==
    Terminal =>
        LET o == mutual_information(y, x, bins, spline_order, correct, min_def)
        IN  /\ pc = "raised" => o.exc = exc
            /\ pc = "done" => (o.exc = "none" /\ o.val = mi)

\* a float is returned and the two marginal entropies differ
C7_Witness ==
    pc = "done" /\ mi.kind = "float" /\ h_x # h_y /\ spline_order > 1

\* C8: for x not constant after filtering, mutual_information(x, x, bins,
\* 1, False, 0) is the marginal entropy H(p_x).
C8_SelfInformationIsEntropy ==
    (/\ Terminal /\ y = x /\ spline_order = 1 /\ correct = FALSE
     /\ min_def = FromInt(0) /\ ~ConstantOn(x))
    => (pc = "done" /\ mi = Float(h_x))

\* C9: for non-empty samples and min_def >= 0, fewer than min_def jointly
\* defined positions give None.
C9_FewerThanMinDefGivesNone ==
    (/\ Terminal /\ Len(x) > 0 /\ ~FLess(min_def, FromInt(0))
     /\ FLess(FromInt(Cardinality(JointlyDefined)), min_def))
    => (pc = "done" /\ mi = None)

\* C9 as amended: the same, for a valid configuration (not spline_order > 1
\* with correct = true, which raises ValueError instead).
C9_FewerThanMinDefGivesNoneIfValid ==
    (/\ Terminal /\ Len(x) > 0 /\ ~FLess(min_def, FromInt(0)) /\ ValidConfig
     /\ FLess(FromInt(Cardinality(JointlyDefined)), min_def))
    => (pc = "done" /\ mi = None)

\* non-constant jointly defined parts: only the gate can give None
C9_Witness ==
    /\ pc = "done" /\ mi = None
    /\ FLess(FromInt(Cardinality(JointlyDefined)), min_def)
    /\ ~ConstantOn(x) /\ ~ConstantOn(y) /\ bins >= spline_order

\* C10: with spline_order = 1, where a float is returned: with correct =
\* true it is the float returned with correct = false minus
\* (bins - 1) / (2 * number of jointly defined positions); with correct =
\* false it is H(p_x) + H(p_y) - H(p_x_y) unchanged.
C10_CorrectionExactlyWhenCorrect ==
    (pc = "done" /\ spline_order = 1 /\ mi.kind = "float") =>
        LET plain == mutual_information(x, y, bins, 1, FALSE, min_def)
            raw == LSub(LAdd(h_x, h_y), h_x_y)
            term == LConst(Rat(bins - 1, 2 * Cardinality(JointlyDefined)))
        IN  /\ plain = Ok(Float(raw))
            /\ mi.val = IF correct THEN LSub(raw, term) ELSE raw

\* corrected, with a missing value, so that len(x_def) # len(x), and a
\* correction that is not zero
C10_Witness ==
    /\ pc = "done" /\ mi.kind = "float" /\ correct = TRUE /\ bins > 1
    /\ Cardinality(JointlyDefined) < Len(x)

\* the sample of a bspline_bin call takes more than one value
NonConstantData == \E i, j \in 1..Len(x) : x[i] # x[j]

\* C4: for a non-constant sample without missing values, bins >= 1 and
\* order >= 1, bspline_bin returns a matrix of shape [n, bins] with
\* non-negative weights in which every row sums to 1.
C4_RowsSumToOne ==
    (call = "bspline_bin" /\ Terminal /\ NonConstantData)
    => /\ pc = "done"
       /\ Len(design) = Len(x)
       /\ \A i \in 1..Len(design) :
            /\ Len(design[i]) = bins
            /\ \A j \in 1..bins : ~FLess(design[i][j], FromInt(0))
            /\ FSum(design[i]) = FromInt(1)

\* C5: for a non-constant sample and bins >= 1, bspline_bin with order = 1
\* returns a matrix in which each row has exactly one entry 1 and all other
\* entries 0, the row of the sample maximum included.
C5_HardBinningOneHot ==
    (call = "bspline_bin" /\ Terminal /\ NonConstantData /\ spline_order = 1)
    => /\ pc = "done"
       /\ \A i \in 1..Len(x) :
            \E j \in 1..bins :
                /\ design[i][j] = FromInt(1)
                /\ \A k \in (1..bins) \ {j} : design[i][k] = FromInt(0)

====
